---- MODULE Spec2Model ----
(***************************************************************************)
(* Model of gcp/bigquery/_api.py: class Api, the BigQuery HTTP request     *)
(* builder.  An Api instance holds a credential handle and a project id;   *)
(* every method builds a URL and a body or a query-argument mapping and    *)
(* hands them to _util.Http.request, then returns what the transport       *)
(* returned (datasets_insert / tables_insert return its selfLink field).   *)
(*                                                                         *)
(* Python values are encoded as follows.                                   *)
(*   str, int, bool  : TLA+ strings, integers, booleans                    *)
(*   dict            : a function with a set of strings as its domain      *)
(*   x-or-None       : None is <<>>, a present value v is <<v>>; the same  *)
(*                     encoding says whether a keyword argument of         *)
(*                     Http.request was passed (<<v>>) or left out (<<>>)  *)
(***************************************************************************)
EXTENDS Integers, Sequences, FiniteSets, TLC

VARIABLES credentials, project_id, ctor, pc, method, params, request, calls,
          outcome, result

vars == <<credentials, project_id, ctor, pc, method, params, request, calls,
          outcome, result>>

(***************************************************************************)
(* Bounds and input domains.                                               *)
(***************************************************************************)
MaxInt == 1

Callers == {"A", "B"}
Projects == {"p1", "p2"}
Credentials == {"cred"}
Sqls == {"SELECT 1"}
DatasetIds == {"d1", "d2"}
TableIds == {"t1", "t2"}
JobIds == {"job1"}
Schemas == {<<>>, <<[name |-> "c", type |-> "STRING"]>>}
RowLists == {<<>>, <<[json |-> [c |-> "v"]]>>}
Ints == 0..MaxInt
Errors == {"HttpError", "NetworkError"}
SelfLinkUrl == "https://www.googleapis.com/bigquery/v2/projects/p1/datasets/d1"

None == <<>>
Some(v) == <<v>>
OptStrings(S) == {None} \cup {Some(s) : s \in S \cup {""}}
OptInts == {None} \cup {Some(i) : i \in Ints}

EmptyDict == [k \in {} |-> ""]

\* Parsed JSON objects the transport may return.
Responses ==
  { [selfLink |-> SelfLinkUrl],
    [selfLink |-> ""],
    [id |-> "x"],
    [selfLink |-> SelfLinkUrl, id |-> "x"] }

(***************************************************************************)
(* Python helpers.                                                         *)
(***************************************************************************)
\* truth value of a str-or-None: None and '' are false
Truthy(v) == v # None /\ v[1] # ""

\* d[k] = v
SetItem(d, k, v) == (k :> v) @@ d

(***************************************************************************)
(* Class constants and path templates ('%s' substitution of str values).   *)
(***************************************************************************)
ENDPOINT == "https://www.googleapis.com/bigquery/v2"
JOBS_PATH(p) == "/projects/" \o p \o "/jobs"
QUERY_PATH(p) == "/projects/" \o p \o "/queries"
QUERY_RESULT_PATH(p, j) == "/projects/" \o p \o "/queries/" \o j
DATASETS_PATH(p, d) == "/projects/" \o p \o "/datasets/" \o d
TABLES_PATH(p, d, t) == "/projects/" \o p \o "/datasets/" \o d \o "/tables/" \o t

DEFAULT_PAGE_SIZE == 10000
DEFAULT_TIMEOUT == 60000

(***************************************************************************)
(* The keyword arguments of one _util.Http.request call.                   *)
(***************************************************************************)
HttpRequest(url, args, data, verb, creds) ==
  [url |-> url, args |-> args, data |-> data, method |-> verb,
   credentials |-> creds]

(***************************************************************************)
(* Request construction, one operator per method.  pid and creds are the   *)
(* values read from self._project_id and self._credentials.                *)
(***************************************************************************)
\* variant: "is not None" tests in place of truth-value tests
HasDestination_notNone(dataset_id, table_id) ==
  dataset_id # None /\ table_id # None

HasDestination(dataset_id, table_id) == Truthy(dataset_id) /\ Truthy(table_id)

\* variant: the overwrite branch tested before the append branch
WriteDisposition_overwriteFirst(query_config, append, overwrite) ==
  IF overwrite THEN SetItem(query_config, "writeDisposition", "WRITE_TRUNCATE")
  ELSE IF append
       THEN SetItem(query_config, "writeDisposition", "WRITE_APPEND")
       ELSE query_config

WriteDisposition(query_config, append, overwrite) ==
  IF append THEN SetItem(query_config, "writeDisposition", "WRITE_APPEND")
  ELSE IF overwrite
       THEN SetItem(query_config, "writeDisposition", "WRITE_TRUNCATE")
       ELSE query_config

jobs_insert_query_request(p, pid, creds) ==
  LET query == [query |-> p.sql, useQueryCache |-> p.use_cache]
      destinationTable == [projectId |-> pid, datasetId |-> p.dataset_id[1],
                           tableId |-> p.table_id[1]]
      query_config ==
        IF HasDestination(p.dataset_id, p.table_id)
        THEN WriteDisposition(
               SetItem(query, "destinationTable", destinationTable),
               p.append, p.overwrite)
        ELSE query
      data == [kind |-> "bigquery#job",
               configuration |-> [query |-> query_config,
                                  dryRun |-> p.dry_run,
                                  priority |-> "INTERACTIVE"]]
  IN HttpRequest(ENDPOINT \o JOBS_PATH(pid), None, Some(data), None, creds)

PageSizeOrDefault(page_size) ==
  IF page_size = 0 THEN DEFAULT_PAGE_SIZE ELSE page_size

\* variant: "if not timeout" in place of "if timeout == None"
TimeoutOrDefault_falsy(timeout) ==
  IF timeout = None \/ timeout[1] = 0 THEN DEFAULT_TIMEOUT ELSE timeout[1]

TimeoutOrDefault(timeout) ==
  IF timeout = None THEN DEFAULT_TIMEOUT ELSE timeout[1]

jobs_query_request(p, pid, creds) ==
  LET data == [kind |-> "bigquery#queryRequest",
               query |-> p.sql,
               maxResults |-> PageSizeOrDefault(p.page_size),
               timeoutMs |-> TimeoutOrDefault(p.timeout),
               dryRun |-> p.dry_run,
               useQueryCache |-> p.use_cache]
  IN HttpRequest(ENDPOINT \o QUERY_PATH(pid), None, Some(data), None, creds)

jobs_query_results_request(p, pid, creds) ==
  LET args == [maxResults |-> PageSizeOrDefault(p.page_size),
               timeoutMs |-> TimeoutOrDefault(p.timeout),
               startIndex |-> p.start_index]
  IN HttpRequest(ENDPOINT \o QUERY_RESULT_PATH(pid, p.job_id), Some(args),
                 None, None, creds)

\* variant: "is not None" tests in place of truth-value tests
OptionalFields_notNone(data, friendly_name, description) ==
  LET d1 == IF friendly_name # None
            THEN SetItem(data, "friendlyName", friendly_name[1]) ELSE data
  IN IF description # None
     THEN SetItem(d1, "description", description[1]) ELSE d1

OptionalFields(data, friendly_name, description) ==
  LET d1 == IF Truthy(friendly_name)
            THEN SetItem(data, "friendlyName", friendly_name[1]) ELSE data
  IN IF Truthy(description)
     THEN SetItem(d1, "description", description[1]) ELSE d1

datasets_insert_request(p, pid, creds) ==
  LET data == [kind |-> "bigquery#dataset",
               datasetReference |-> [projectId |-> pid,
                                     datasetId |-> p.dataset_id]]
  IN HttpRequest(ENDPOINT \o DATASETS_PATH(pid, ""), None,
                 Some(OptionalFields(data, p.friendly_name, p.description)),
                 None, creds)

\* args is built (lines 196-198) but is not among the keyword arguments of
\* the call on line 199.
datasets_delete_request(p, pid, creds) ==
  LET args == IF p.delete_contents
              THEN SetItem(EmptyDict, "deleteContents", TRUE) ELSE EmptyDict
  IN HttpRequest(ENDPOINT \o DATASETS_PATH(pid, p.dataset_id), None, None,
                 Some("DELETE"), creds)

datasets_get_request(p, pid, creds) ==
  HttpRequest(ENDPOINT \o DATASETS_PATH(pid, p.dataset_id), None, None, None,
              creds)

\* variant: "if page_token" in place of "if page_token is not None"
ListArgs_truthyToken(max_results, page_token) ==
  LET a1 == IF max_results # 0
            THEN SetItem(EmptyDict, "maxResults", max_results) ELSE EmptyDict
  IN IF Truthy(page_token) THEN SetItem(a1, "pageToken", page_token[1]) ELSE a1

ListArgs(max_results, page_token) ==
  LET a1 == IF max_results # 0
            THEN SetItem(EmptyDict, "maxResults", max_results) ELSE EmptyDict
  IN IF page_token # None THEN SetItem(a1, "pageToken", page_token[1]) ELSE a1

datasets_list_request(p, pid, creds) ==
  HttpRequest(ENDPOINT \o DATASETS_PATH(pid, ""),
              Some(ListArgs(p.max_results, p.page_token)), None, None, creds)

tables_get_request(p, pid, creds) ==
  HttpRequest(ENDPOINT \o TABLES_PATH(p.name_parts[1], p.name_parts[2],
                                      p.name_parts[3]),
              None, None, None, creds)

tables_list_request(p, pid, creds) ==
  HttpRequest(ENDPOINT \o TABLES_PATH(pid, p.dataset_id, ""),
              Some(ListArgs(p.max_results, p.page_token)), None, None, creds)

tables_insert_request(p, pid, creds) ==
  LET data == [kind |-> "bigquery#table",
               tableReference |-> [projectId |-> pid,
                                   datasetId |-> p.dataset_id,
                                   tableId |-> p.table_id],
               schema |-> [fields |-> p.schema]]
  IN HttpRequest(ENDPOINT \o TABLES_PATH(pid, p.dataset_id, ""), None,
                 Some(OptionalFields(data, p.friendly_name, p.description)),
                 None, creds)

tables_insertAll_request(p, pid, creds) ==
  LET data == [kind |-> "bigquery#tableDataInsertAllRequest",
               rows |-> p.rows]
  IN HttpRequest(ENDPOINT \o TABLES_PATH(pid, p.dataset_id, p.table_id)
                   \o "/insertAll",
                 None, Some(data), None, creds)

\* variant: the URL of tables_list (empty table id) in table_delete
table_delete_request_noTableId(p, pid, creds) ==
  HttpRequest(ENDPOINT \o TABLES_PATH(pid, p.dataset_id, ""), None,
              None, Some("DELETE"), creds)

table_delete_request(p, pid, creds) ==
  HttpRequest(ENDPOINT \o TABLES_PATH(pid, p.dataset_id, p.table_id), None,
              None, Some("DELETE"), creds)

(***************************************************************************)
(* What a method returns once the transport has returned response.         *)
(***************************************************************************)
\* variant: response.get('selfLink') or None
SelfLinkOrNone_truthy(response) ==
  IF "selfLink" \in DOMAIN response /\ response.selfLink # ""
  THEN Some(response.selfLink) ELSE None

SelfLinkOrNone(response) ==
  IF "selfLink" \in DOMAIN response THEN Some(response.selfLink) ELSE None

ReturnValue(name, response) ==
  IF name \in {"datasets_insert", "tables_insert"}
  THEN SelfLinkOrNone(response)
  ELSE response

(***************************************************************************)
(* State.                                                                  *)
(*   credentials, project_id : self._credentials, self._project_id        *)
(*   ctor      : the arguments the constructor was called with             *)
(*   pc[c]     : "idle", "request" (blocked in Http.request), "done"       *)
(*   method[c], params[c] : the method caller c is in and its arguments    *)
(*   request[c]: the keyword arguments handed to Http.request              *)
(*   calls[c]  : Http.request calls made by the current invocation         *)
(*   outcome[c]: what Http.request did (returned a response / raised)      *)
(*   result[c] : what the method did (returned a value / raised)           *)
(***************************************************************************)
NoParams == [k \in {} |-> ""]
NoRequest == [url |-> ""]
NoOutcome == [kind |-> "none"]
NoResult == [kind |-> "none"]

Init ==
  /\ ctor \in [credentials : Credentials, project_id : Projects]
  /\ credentials = ctor.credentials
  /\ project_id = ctor.project_id
  /\ pc = [c \in Callers |-> "idle"]
  /\ method = [c \in Callers |-> "none"]
  /\ params = [c \in Callers |-> NoParams]
  /\ request = [c \in Callers |-> NoRequest]
  /\ calls = [c \in Callers |-> 0]
  /\ outcome = [c \in Callers |-> NoOutcome]
  /\ result = [c \in Callers |-> NoResult]

\* Caller c enters method name.  Up to its Http.request call a method reads
\* self._project_id and self._credentials and writes locals only, so entry,
\* request construction and the call are one step.
Invoke(c, name) ==
  /\ pc[c] = "idle"
  /\ pc' = [pc EXCEPT ![c] = "request"]
  /\ method' = [method EXCEPT ![c] = name]
  /\ calls' = [calls EXCEPT ![c] = 1]
  /\ UNCHANGED <<credentials, project_id, ctor, outcome, result>>

jobs_insert_query(c) ==
  \E sql \in Sqls, dataset_id \in OptStrings({"d1"}),
     table_id \in OptStrings({"t1"}),
     append \in BOOLEAN, overwrite \in BOOLEAN,
     dry_run \in BOOLEAN, use_cache \in BOOLEAN :
    LET p == [sql |-> sql, dataset_id |-> dataset_id, table_id |-> table_id,
              append |-> append, overwrite |-> overwrite,
              dry_run |-> dry_run, use_cache |-> use_cache]
    IN /\ Invoke(c, "jobs_insert_query")
       /\ params' = [params EXCEPT ![c] = p]
       /\ request' = [request EXCEPT ![c] =
                        jobs_insert_query_request(p, project_id, credentials)]

jobs_query(c) ==
  \E sql \in Sqls, page_size \in Ints, timeout \in OptInts,
     dry_run \in BOOLEAN, use_cache \in BOOLEAN :
    LET p == [sql |-> sql, page_size |-> page_size, timeout |-> timeout,
              dry_run |-> dry_run, use_cache |-> use_cache]
    IN /\ Invoke(c, "jobs_query")
       /\ params' = [params EXCEPT ![c] = p]
       /\ request' = [request EXCEPT ![c] =
                        jobs_query_request(p, project_id, credentials)]

jobs_query_results(c) ==
  \E job_id \in JobIds, page_size \in Ints, timeout \in OptInts,
     start_index \in Ints :
    LET p == [job_id |-> job_id, page_size |-> page_size,
              timeout |-> timeout, start_index |-> start_index]
    IN /\ Invoke(c, "jobs_query_results")
       /\ params' = [params EXCEPT ![c] = p]
       /\ request' = [request EXCEPT ![c] =
                        jobs_query_results_request(p, project_id, credentials)]

datasets_insert(c) ==
  \E dataset_id \in DatasetIds, friendly_name \in OptStrings({"fn"}),
     description \in OptStrings({"desc"}) :
    LET p == [dataset_id |-> dataset_id, friendly_name |-> friendly_name,
              description |-> description]
    IN /\ Invoke(c, "datasets_insert")
       /\ params' = [params EXCEPT ![c] = p]
       /\ request' = [request EXCEPT ![c] =
                        datasets_insert_request(p, project_id, credentials)]

datasets_delete(c) ==
  \E dataset_id \in DatasetIds, delete_contents \in BOOLEAN :
    LET p == [dataset_id |-> dataset_id, delete_contents |-> delete_contents]
    IN /\ Invoke(c, "datasets_delete")
       /\ params' = [params EXCEPT ![c] = p]
       /\ request' = [request EXCEPT ![c] =
                        datasets_delete_request(p, project_id, credentials)]

datasets_get(c) ==
  \E dataset_id \in DatasetIds :
    LET p == [dataset_id |-> dataset_id]
    IN /\ Invoke(c, "datasets_get")
       /\ params' = [params EXCEPT ![c] = p]
       /\ request' = [request EXCEPT ![c] =
                        datasets_get_request(p, project_id, credentials)]

datasets_list(c) ==
  \E max_results \in Ints, page_token \in OptStrings({"tok"}) :
    LET p == [max_results |-> max_results, page_token |-> page_token]
    IN /\ Invoke(c, "datasets_list")
       /\ params' = [params EXCEPT ![c] = p]
       /\ request' = [request EXCEPT ![c] =
                        datasets_list_request(p, project_id, credentials)]

\* variant: tables_get stores the project of the table name in the instance
tables_get_storesProject(c) ==
  \E name_parts \in Projects \X {"d1"} \X TableIds :
    LET p == [name_parts |-> name_parts]
    IN /\ pc[c] = "idle"
       /\ pc' = [pc EXCEPT ![c] = "request"]
       /\ method' = [method EXCEPT ![c] = "tables_get"]
       /\ calls' = [calls EXCEPT ![c] = 1]
       /\ project_id' = name_parts[1]
       /\ params' = [params EXCEPT ![c] = p]
       /\ request' = [request EXCEPT ![c] =
                        tables_get_request(p, name_parts[1], credentials)]
       /\ UNCHANGED <<credentials, ctor, outcome, result>>

tables_get(c) ==
  \E name_parts \in Projects \X {"d1"} \X TableIds :
    LET p == [name_parts |-> name_parts]
    IN /\ Invoke(c, "tables_get")
       /\ params' = [params EXCEPT ![c] = p]
       /\ request' = [request EXCEPT ![c] =
                        tables_get_request(p, project_id, credentials)]

tables_list(c) ==
  \E dataset_id \in DatasetIds, max_results \in Ints,
     page_token \in OptStrings({"tok"}) :
    LET p == [dataset_id |-> dataset_id, max_results |-> max_results,
              page_token |-> page_token]
    IN /\ Invoke(c, "tables_list")
       /\ params' = [params EXCEPT ![c] = p]
       /\ request' = [request EXCEPT ![c] =
                        tables_list_request(p, project_id, credentials)]

tables_insert(c) ==
  \E dataset_id \in DatasetIds, table_id \in {"t1"}, schema \in Schemas,
     friendly_name \in OptStrings({"fn"}),
     description \in OptStrings({"desc"}) :
    LET p == [dataset_id |-> dataset_id, table_id |-> table_id,
              schema |-> schema, friendly_name |-> friendly_name,
              description |-> description]
    IN /\ Invoke(c, "tables_insert")
       /\ params' = [params EXCEPT ![c] = p]
       /\ request' = [request EXCEPT ![c] =
                        tables_insert_request(p, project_id, credentials)]

tables_insertAll(c) ==
  \E dataset_id \in DatasetIds, table_id \in TableIds, rows \in RowLists :
    LET p == [dataset_id |-> dataset_id, table_id |-> table_id,
              rows |-> rows]
    IN /\ Invoke(c, "tables_insertAll")
       /\ params' = [params EXCEPT ![c] = p]
       /\ request' = [request EXCEPT ![c] =
                        tables_insertAll_request(p, project_id, credentials)]

table_delete(c) ==
  \E dataset_id \in DatasetIds, table_id \in TableIds :
    LET p == [dataset_id |-> dataset_id, table_id |-> table_id]
    IN /\ Invoke(c, "table_delete")
       /\ params' = [params EXCEPT ![c] = p]
       /\ request' = [request EXCEPT ![c] =
                        table_delete_request(p, project_id, credentials)]

\* Http.request returns a parsed response; the method returns to its caller.
\* The request descriptor and the arguments are locals of the finished call.
HttpReturns(c) ==
  /\ pc[c] = "request"
  /\ \E response \in Responses :
       /\ outcome' = [outcome EXCEPT ![c] = [kind |-> "response",
                                             response |-> response]]
       /\ result' = [result EXCEPT ![c] =
                       [kind |-> "return",
                        value |-> ReturnValue(method[c], response)]]
  /\ pc' = [pc EXCEPT ![c] = "done"]
  /\ params' = [params EXCEPT ![c] = NoParams]
  /\ request' = [request EXCEPT ![c] = NoRequest]
  /\ UNCHANGED <<credentials, project_id, ctor, method, calls>>

\* variant: datasets_insert and tables_insert catch the exception and
\* return None
HttpRaises_swallowed(c) ==
  /\ pc[c] = "request"
  /\ \E error \in Errors :
       /\ outcome' = [outcome EXCEPT ![c] = [kind |-> "error",
                                             error |-> error]]
       /\ result' = [result EXCEPT ![c] =
                       IF method[c] \in {"datasets_insert", "tables_insert"}
                       THEN [kind |-> "return", value |-> None]
                       ELSE [kind |-> "raise", error |-> error]]
  /\ pc' = [pc EXCEPT ![c] = "done"]
  /\ params' = [params EXCEPT ![c] = NoParams]
  /\ request' = [request EXCEPT ![c] = NoRequest]
  /\ UNCHANGED <<credentials, project_id, ctor, method, calls>>

\* Http.request raises; no method has a handler around the call, so the
\* exception leaves the method as it is.
HttpRaises(c) ==
  /\ pc[c] = "request"
  /\ \E error \in Errors :
       /\ outcome' = [outcome EXCEPT ![c] = [kind |-> "error",
                                             error |-> error]]
       /\ result' = [result EXCEPT ![c] = [kind |-> "raise",
                                           error |-> error]]
  /\ pc' = [pc EXCEPT ![c] = "done"]
  /\ params' = [params EXCEPT ![c] = NoParams]
  /\ request' = [request EXCEPT ![c] = NoRequest]
  /\ UNCHANGED <<credentials, project_id, ctor, method, calls>>

\* The caller has taken the outcome and is ready for its next call.
CallerContinues(c) ==
  /\ pc[c] = "done"
  /\ pc' = [pc EXCEPT ![c] = "idle"]
  /\ method' = [method EXCEPT ![c] = "none"]
  /\ calls' = [calls EXCEPT ![c] = 0]
  /\ outcome' = [outcome EXCEPT ![c] = NoOutcome]
  /\ result' = [result EXCEPT ![c] = NoResult]
  /\ UNCHANGED <<credentials, project_id, ctor, params, request>>

Next ==
  \E c \in Callers :
    \/ jobs_insert_query(c)
    \/ jobs_query(c)
    \/ jobs_query_results(c)
    \/ datasets_insert(c)
    \/ datasets_delete(c)
    \/ datasets_get(c)
    \/ datasets_list(c)
    \/ tables_get(c)
    \/ tables_list(c)
    \/ tables_insert(c)
    \/ tables_insertAll(c)
    \/ table_delete(c)
    \/ HttpReturns(c)
    \/ HttpRaises(c)
    \/ CallerContinues(c)

Spec == Init /\ [][Next]_vars

TypeOK ==
  /\ credentials \in Credentials
  /\ project_id \in Projects
  /\ \A c \in Callers : pc[c] \in {"idle", "request", "done"}


(***************************************************************************)
(* Properties.                                                             *)
(***************************************************************************)
InRequest(c, name) == pc[c] = "request" /\ method[c] = name

\* The request of method name with arguments p under context (pid, creds).
RequestOf(name, p, pid, creds) ==
  CASE name = "jobs_insert_query" -> jobs_insert_query_request(p, pid, creds)
    [] name = "jobs_query" -> jobs_query_request(p, pid, creds)
    [] name = "jobs_query_results" -> jobs_query_results_request(p, pid, creds)
    [] name = "datasets_insert" -> datasets_insert_request(p, pid, creds)
    [] name = "datasets_delete" -> datasets_delete_request(p, pid, creds)
    [] name = "datasets_get" -> datasets_get_request(p, pid, creds)
    [] name = "datasets_list" -> datasets_list_request(p, pid, creds)
    [] name = "tables_get" -> tables_get_request(p, pid, creds)
    [] name = "tables_list" -> tables_list_request(p, pid, creds)
    [] name = "tables_insert" -> tables_insert_request(p, pid, creds)
    [] name = "tables_insertAll" -> tables_insertAll_request(p, pid, creds)
    [] name = "table_delete" -> table_delete_request(p, pid, creds)

\* the argument is neither None nor the empty string
Given(v) == v # None /\ v # Some("")

\* C1: a jobs_insert_query call with dataset_id and table_id both given
\* sends a body whose configuration.query.destinationTable names the
\* instance's project, the dataset and the table; writeDisposition is
\* WRITE_APPEND when append is true (also with overwrite), WRITE_TRUNCATE
\* when only overwrite is true, and absent when both are false; the call
\* ("SELECT 1", "d1", "t1", overwrite=True) sends exactly the body of the
\* end-to-end example.
C1_DestinationAndDisposition ==
  \A c \in Callers :
    (/\ InRequest(c, "jobs_insert_query")
     /\ Given(params[c].dataset_id)
     /\ Given(params[c].table_id))
    =>
    LET p == params[c]
        q == request[c].data[1].configuration.query
    IN /\ Len(request[c].data) = 1
       /\ "destinationTable" \in DOMAIN q
       /\ q.destinationTable = [projectId |-> project_id,
                                datasetId |-> p.dataset_id[1],
                                tableId |-> p.table_id[1]]
       /\ p.append =>
            /\ "writeDisposition" \in DOMAIN q
            /\ q.writeDisposition = "WRITE_APPEND"
       /\ (p.overwrite /\ ~p.append) =>
            /\ "writeDisposition" \in DOMAIN q
            /\ q.writeDisposition = "WRITE_TRUNCATE"
       /\ (~p.append /\ ~p.overwrite) => "writeDisposition" \notin DOMAIN q
       /\ (/\ p.sql = "SELECT 1"
           /\ p.dataset_id = Some("d1")
           /\ p.table_id = Some("t1")
           /\ p.overwrite /\ ~p.append /\ ~p.dry_run /\ p.use_cache)
          =>
          request[c].data =
            Some([kind |-> "bigquery#job",
                  configuration |->
                    [query |-> [query |-> "SELECT 1",
                                useQueryCache |-> TRUE,
                                destinationTable |->
                                  [projectId |-> project_id,
                                   datasetId |-> "d1",
                                   tableId |-> "t1"],
                                writeDisposition |-> "WRITE_TRUNCATE"],
                     dryRun |-> FALSE,
                     priority |-> "INTERACTIVE"]])

C1_Witness ==
  \E c \in Callers :
    /\ InRequest(c, "jobs_insert_query")
    /\ Given(params[c].dataset_id)
    /\ Given(params[c].table_id)
    /\ params[c].append
    /\ params[c].overwrite
    /\ request[c].data[1].configuration.query.writeDisposition = "WRITE_APPEND"

\* C2: a jobs_insert_query call in which dataset_id or table_id is None or
\* empty sends a body with neither a destinationTable nor a
\* writeDisposition key, whatever append and overwrite are.
C2_NoDestination ==
  \A c \in Callers :
    (/\ InRequest(c, "jobs_insert_query")
     /\ ~(Given(params[c].dataset_id) /\ Given(params[c].table_id)))
    =>
    /\ Len(request[c].data) = 1
    /\ DOMAIN request[c].data[1].configuration.query
         = {"query", "useQueryCache"}

C2_Witness ==
  \E c \in Callers :
    /\ InRequest(c, "jobs_insert_query")
    /\ params[c].dataset_id = Some("d1")
    /\ params[c].table_id = Some("")
    /\ params[c].append
    /\ "destinationTable" \notin DOMAIN request[c].data[1].configuration.query

\* C3: jobs_query and jobs_query_results send maxResults = 10000 when
\* page_size is 0 and timeoutMs = 60000 when timeout is None, and any other
\* value (timeout 0 included) verbatim; jobs_query carries them in the body,
\* jobs_query_results in the query arguments together with startIndex.
C3_PagingDefaults ==
  \A c \in Callers :
    LET p == params[c]
        maxResults == IF p.page_size = 0 THEN 10000 ELSE p.page_size
        timeoutMs == IF p.timeout = None THEN 60000 ELSE p.timeout[1]
    IN /\ InRequest(c, "jobs_query") =>
            /\ Len(request[c].data) = 1
            /\ request[c].data[1].maxResults = maxResults
            /\ request[c].data[1].timeoutMs = timeoutMs
            /\ request[c].data[1].maxResults # 0
            /\ request[c].args = None
       /\ InRequest(c, "jobs_query_results") =>
            /\ request[c].args = Some([maxResults |-> maxResults,
                                       timeoutMs |-> timeoutMs,
                                       startIndex |-> p.start_index])
            /\ request[c].args[1].maxResults # 0
            /\ request[c].data = None

C3_Witness ==
  /\ InRequest("A", "jobs_query")
  /\ params["A"].page_size = 0
  /\ params["A"].timeout = Some(0)
  /\ request["A"].data[1].timeoutMs = 0
  /\ InRequest("B", "jobs_query_results")
  /\ params["B"].page_size = 1
  /\ params["B"].timeout = None
  /\ request["B"].args[1].timeoutMs = 60000

\* C4: datasets_delete with delete_contents true passes the transport a
\* query-argument mapping containing deleteContents = True, and with
\* delete_contents false sends no deleteContents argument.
C4_DeleteContentsSent ==
  \A c \in Callers :
    InRequest(c, "datasets_delete") =>
      IF params[c].delete_contents
      THEN /\ Len(request[c].args) = 1
           /\ "deleteContents" \in DOMAIN request[c].args[1]
           /\ request[c].args[1].deleteContents = TRUE
      ELSE \/ request[c].args = None
           \/ "deleteContents" \notin DOMAIN request[c].args[1]

\* C5: datasets_insert and tables_insert return exactly the selfLink value
\* of the transport's response when the response has that field, and None,
\* without raising, when it has not; no other field has an influence.
C5_SelfLinkOrNone ==
  \A c \in Callers :
    (/\ pc[c] = "done"
     /\ method[c] \in {"datasets_insert", "tables_insert"}
     /\ outcome[c].kind = "response")
    =>
    /\ result[c].kind = "return"
    /\ result[c].value =
         IF "selfLink" \in DOMAIN outcome[c].response
         THEN Some(outcome[c].response.selfLink)
         ELSE None

C5_Witness ==
  /\ pc["A"] = "done" /\ method["A"] = "datasets_insert"
  /\ outcome["A"].kind = "response"
  /\ outcome["A"].response = [selfLink |-> SelfLinkUrl, id |-> "x"]
  /\ result["A"].value = Some(SelfLinkUrl)
  /\ pc["B"] = "done" /\ method["B"] = "tables_insert"
  /\ outcome["B"].kind = "response"
  /\ outcome["B"].response = [id |-> "x"]
  /\ result["B"].value = None

\* C6: datasets_list and tables_list pass a query-argument mapping that has
\* the key maxResults iff max_results # 0 and the key pageToken iff
\* page_token is not None (the empty string included), each with the
\* caller's value, and no other key.
C6_ListArgs ==
  \A c \in Callers :
    (pc[c] = "request" /\ method[c] \in {"datasets_list", "tables_list"})
    =>
    LET p == params[c]
    IN /\ Len(request[c].args) = 1
       /\ DOMAIN request[c].args[1] =
            (IF p.max_results # 0 THEN {"maxResults"} ELSE {})
              \cup (IF p.page_token # None THEN {"pageToken"} ELSE {})
       /\ p.max_results # 0 => request[c].args[1].maxResults = p.max_results
       /\ p.page_token # None =>
            request[c].args[1].pageToken = p.page_token[1]

C6_Witness ==
  /\ InRequest("A", "datasets_list")
  /\ params["A"].max_results = 0
  /\ params["A"].page_token = Some("")
  /\ DOMAIN request["A"].args[1] = {"pageToken"}
  /\ InRequest("B", "tables_list")
  /\ params["B"].max_results = 1
  /\ params["B"].page_token = None
  /\ DOMAIN request["B"].args[1] = {"maxResults"}

\* C7: datasets_delete and table_delete call the transport with verb
\* DELETE and no body, against endpoint/projects/<project>/datasets/<d> and
\* endpoint/projects/<project>/datasets/<d>/tables/<t>; no other method
\* uses the verb DELETE.
C7_DeleteVerbAndUrl ==
  \A c \in Callers :
    pc[c] = "request" =>
      LET p == params[c]
          base == "https://www.googleapis.com/bigquery/v2/projects/"
                    \o project_id \o "/datasets/"
      IN CASE method[c] = "datasets_delete" ->
                /\ request[c].method = Some("DELETE")
                /\ request[c].data = None
                /\ request[c].url = base \o p.dataset_id
           [] method[c] = "table_delete" ->
                /\ request[c].method = Some("DELETE")
                /\ request[c].data = None
                /\ request[c].url =
                     base \o p.dataset_id \o "/tables/" \o p.table_id
           [] OTHER -> request[c].method # Some("DELETE")

C7_Witness ==
  /\ InRequest("A", "datasets_delete")
  /\ request["A"].url =
       "https://www.googleapis.com/bigquery/v2/projects/p2/datasets/d2"
  /\ InRequest("B", "table_delete")
  /\ request["B"].url =
       "https://www.googleapis.com/bigquery/v2/projects/p2/datasets/d1/tables/t2"

\* C8: the body of datasets_insert and tables_insert has the key
\* friendlyName iff friendly_name is non-empty and the key description iff
\* description is non-empty, each with the caller's value; the rest of the
\* body does not depend on the two parameters.
C8_OptionalFields ==
  \A c \in Callers :
    (pc[c] = "request" /\ method[c] \in {"datasets_insert", "tables_insert"})
    =>
    LET p == params[c]
        rest ==
          IF method[c] = "datasets_insert"
          THEN [kind |-> "bigquery#dataset",
                datasetReference |-> [projectId |-> project_id,
                                      datasetId |-> p.dataset_id]]
          ELSE [kind |-> "bigquery#table",
                tableReference |-> [projectId |-> project_id,
                                    datasetId |-> p.dataset_id,
                                    tableId |-> p.table_id],
                schema |-> [fields |-> p.schema]]
        opt == (IF Given(p.friendly_name) THEN {"friendlyName"} ELSE {})
                 \cup (IF Given(p.description) THEN {"description"} ELSE {})
    IN /\ Len(request[c].data) = 1
       /\ DOMAIN request[c].data[1] = DOMAIN rest \cup opt
       /\ [k \in DOMAIN rest |-> request[c].data[1][k]] = rest
       /\ Given(p.friendly_name) =>
            request[c].data[1].friendlyName = p.friendly_name[1]
       /\ Given(p.description) =>
            request[c].data[1].description = p.description[1]

C8_Witness ==
  /\ InRequest("A", "datasets_insert")
  /\ params["A"].friendly_name = Some("")
  /\ params["A"].description = Some("desc")
  /\ DOMAIN request["A"].data[1] = {"kind", "datasetReference", "description"}
  /\ InRequest("B", "tables_insert")
  /\ params["B"].friendly_name = Some("fn")
  /\ params["B"].description = None
  /\ request["B"].data[1].friendlyName = "fn"

\* C9: every invocation makes exactly one transport call; when that call
\* fails the caller gets exactly the transport's error (no second call, no
\* return value in its place) and the client context is as constructed.
C9_SingleCallFailurePropagates ==
  \A c \in Callers :
    /\ pc[c] \in {"request", "done"} => calls[c] = 1
    /\ pc[c] = "idle" => calls[c] = 0
    /\ (pc[c] = "done" /\ outcome[c].kind = "error") =>
         /\ result[c] = [kind |-> "raise", error |-> outcome[c].error]
         /\ credentials = ctor.credentials
         /\ project_id = ctor.project_id
    /\ (pc[c] = "done" /\ outcome[c].kind = "response") =>
         result[c].kind = "return"

C9_Witness ==
  /\ pc["A"] = "done" /\ method["A"] = "datasets_insert"
  /\ outcome["A"] = [kind |-> "error", error |-> "HttpError"]
  /\ result["A"] = [kind |-> "raise", error |-> "HttpError"]
  /\ pc["B"] = "done" /\ method["B"] = "jobs_insert_query"
  /\ outcome["B"] = [kind |-> "error", error |-> "NetworkError"]
  /\ calls["B"] = 1

\* C10: the credential handle and the project id always equal the
\* constructor's arguments, and the request a call hands to the transport,
\* whatever the other callers are doing, is the request that call produces
\* from its own arguments and the constructed context.
C10_ContextImmutable ==
  /\ credentials = ctor.credentials
  /\ project_id = ctor.project_id
  /\ \A c \in Callers :
       pc[c] = "request" =>
         request[c] = RequestOf(method[c], params[c], ctor.project_id,
                                ctor.credentials)

C10_Witness ==
  /\ InRequest("A", "tables_get")
  /\ params["A"].name_parts[1] # ctor.project_id
  /\ InRequest("B", "jobs_insert_query")
  /\ Given(params["B"].dataset_id) /\ Given(params["B"].table_id)
  /\ request["B"].data[1].configuration.query.destinationTable.projectId
       = ctor.project_id

====
